---- MODULE Spec2Model ----
(***************************************************************************)
(* Model of the lecture-notes pipeline: the transcript chunker, the        *)
(* model-availability check, the JSON transcript cache and the             *)
(* orchestration of main.py / NoteGenerator.generate_notes.                *)
(*                                                                         *)
(* A text is modelled by the sequence of its whitespace-separated words    *)
(* (str.split()); ' '.join of texts is the concatenation of the word       *)
(* sequences.  A model identifier is the sequence of its characters.       *)
(***************************************************************************)
EXTENDS Integers, Sequences, FiniteSets, TLC

\* ------------------------------------------------------------------ bounds
MaxSegs == 3
MaxWords == 2
MaxBudget == 4

\* ------------------------------------------------------------- dictionaries
\* dict.get(key, default)
Get(d, k, default) == IF k \in DOMAIN d THEN d[k] ELSE default

\* a text of n words
Words(n) == [i \in 1..n |-> "w"]

RECURSIVE JoinTexts(_)
\* ' '.join(texts), read back through str.split()
JoinTexts(texts) ==
  IF texts = <<>> THEN <<>> ELSE Head(texts) \o JoinTexts(Tail(texts))

\* hours, minutes and seconds of a time (printed HH:MM:SS, or MM:SS under an hour)
format_timestamp(seconds) ==
  <<seconds \div 3600, (seconds % 3600) \div 60, seconds % 60>>

\* one Word entry of a segment (transcriber.py, the 'words' comprehension)
WordOf(i, k) == [word |-> "w", start |-> i - 1, end |-> i, probability |-> k]

\* the segment_dict the transcriber builds for the i-th recognised segment
\* holding w words; the 'words' key is present only for a non-empty word list
SegmentDict(i, w, word_timestamps) ==
  LET base == [start |-> i - 1, end |-> i, text |-> Words(w),
               start_formatted |-> format_timestamp(i - 1),
               end_formatted |-> format_timestamp(i)]
  IN IF word_timestamps /\ w > 0
       THEN [start |-> base.start, end |-> base.end, text |-> base.text,
             start_formatted |-> base.start_formatted,
             end_formatted |-> base.end_formatted,
             words |-> [k \in 1..w |-> WordOf(i, k)]]
       ELSE base

\* the result dict of Transcriber.transcribe for segments of ws[i] words
TranscriptOf(ws, word_timestamps) ==
  LET segments == [i \in 1..Len(ws) |-> SegmentDict(i, ws[i], word_timestamps)]
  IN [text |-> JoinTexts([i \in 1..Len(ws) |-> segments[i].text]),
      segments |-> segments,
      language |-> "en"]

WordCounts == UNION {[1..n -> 0..MaxWords] : n \in 1..MaxSegs}

\* transcripts with segments, and segment-less transcripts with any text
Transcripts ==
  {TranscriptOf(ws, TRUE) : ws \in WordCounts}
    \cup {[text |-> Words(k), segments |-> <<>>, language |-> "en"] : k \in 0..MaxWords + 1}

\* ------------------------------------------------------------------ chunker
\* mutant: round(len(text.split()) * 1.3), halves going to the even neighbour
_estimate_tokens_rounded(text) ==
  LET q == (Len(text) * 13) \div 10
      r == (Len(text) * 13) % 10
  IN IF r > 5 \/ (r = 5 /\ q % 2 = 1) THEN q + 1 ELSE q

\* int(len(text.split()) * 1.3): int() drops the fraction
_estimate_tokens(text) == (Len(text) * 13) \div 10

_create_chunk_transcript(segments) ==
  [text |-> JoinTexts([i \in 1..Len(segments) |-> segments[i].text]),
   segments |-> segments,
   start_time |-> IF segments # <<>> THEN segments[1].start ELSE 0,
   end_time |-> IF segments # <<>> THEN segments[Len(segments)].end ELSE 0]

\* mutant: the split test without "and current_chunk_segments"
must_split_unguarded(count, segment_tokens, cur, size) ==
  count + segment_tokens > size

\* mutant: the split test looks at the segment alone, not at the running count
must_split_without_count(count, segment_tokens, cur, size) ==
  segment_tokens > size /\ cur # <<>>

\* mutant: the split test with >= in place of >
must_split_at_budget(count, segment_tokens, cur, size) ==
  count + segment_tokens >= size /\ cur # <<>>

\* the condition of the if inside the loop
must_split(count, segment_tokens, cur, size) ==
  count + segment_tokens > size /\ cur # <<>>

\* mutant: the last chunk is forgotten
last_chunk_forgotten(chunks_, cur) == chunks_

\* "Don't forget the last chunk"
last_chunk(chunks_, cur) ==
  IF cur # <<>> THEN Append(chunks_, _create_chunk_transcript(cur)) ELSE chunks_

RECURSIVE chunk_loop(_, _, _, _, _, _)
\* the for loop over segments, from segment i on
chunk_loop(segments, i, chunks_, cur, count, size) ==
  IF i > Len(segments) THEN last_chunk(chunks_, cur)
  ELSE LET segment == segments[i]
           segment_tokens == _estimate_tokens(segment.text)
           split == must_split(count, segment_tokens, cur, size)
       IN chunk_loop(segments, i + 1,
                     IF split THEN Append(chunks_, _create_chunk_transcript(cur))
                              ELSE chunks_,
                     Append(IF split THEN <<>> ELSE cur, segment),
                     (IF split THEN 0 ELSE count) + segment_tokens,
                     size)

_chunk_transcript(t, size) ==
  LET segments == Get(t, "segments", <<>>)
  IN IF segments = <<>> THEN <<t>>
     ELSE chunk_loop(segments, 1, <<>>, <<>>, 0, size)

\* ------------------------------------------------- model-availability check
\* identifiers as character runs: "llama3.2:3b", "llama3.2", "llama3.2:latest",
\* "llama3.2-vision:11b", "mistral:7b"
Llama32_3b == <<"llama3.2", ":", "3b">>
Llama32 == <<"llama3.2">>
Llama32_latest == <<"llama3.2", ":", "latest">>
Llama32_vision == <<"llama3.2", "-vision", ":", "11b">>
Mistral_7b == <<"mistral", ":", "7b">>
ModelIds == {Llama32_3b, Llama32, Llama32_latest, Llama32_vision, Mistral_7b}

RECURSIVE split_colon_0(_)
\* name.split(':')[0]
split_colon_0(name) ==
  IF name = <<>> \/ Head(name) = ":" THEN <<>>
  ELSE <<Head(name)>> \o split_colon_0(Tail(name))

\* name.startswith(prefix)
startswith(name, prefix) ==
  Len(prefix) <= Len(name) /\ SubSeq(name, 1, Len(prefix)) = prefix

\* a response of client.list(): the call raised, or the installed identifiers
ListError == [ok |-> FALSE, models |-> {}]
ListOk(names) == [ok |-> TRUE, models |-> names]
ListResponses == {ListError} \cup {ListOk(names) : names \in SUBSET (ModelIds \cup {<<>>})}

check_model_available(model_, response) ==
  IF ~response.ok THEN FALSE
  ELSE LET model_names == {name \in response.models : name # <<>>}
           base_name == split_colon_0(model_)
       IN IF model_ \in model_names THEN TRUE
          ELSE \E name \in model_names : startswith(name, base_name)

\* ------------------------------------------------------------ cache (JSON)
\* JSON text as its token sequence: punctuation, strings (keys and values)
\* and numbers
P(c) == [t |-> "p", v |-> c]
S(s) == [t |-> "s", v |-> s]
N(n) == [t |-> "n", v |-> n]

RECURSIVE Concat(_)
Concat(seqs) == IF seqs = <<>> THEN <<>> ELSE Head(seqs) \o Concat(Tail(seqs))

dump_word(w) ==
  <<P("{"), S("word"), S(w.word), S("start"), N(w.start), S("end"), N(w.end),
    S("probability"), N(w.probability), P("}")>>

dump_segment(s) ==
  <<P("{"), S("start"), N(s.start), S("end"), N(s.end), S("text"), S(s.text),
    S("start_formatted"), S(s.start_formatted),
    S("end_formatted"), S(s.end_formatted)>>
    \o (IF "words" \in DOMAIN s
          THEN <<S("words"), P("[")>>
                 \o Concat([k \in 1..Len(s.words) |-> dump_word(s.words[k])])
                 \o <<P("]")>>
          ELSE <<>>)
    \o <<P("}")>>

\* mutant: the segment lists are not written
json_dump_flat(data) ==
  <<P("{"), S("text"), S(data.text), S("segments"), P("["), P("]"),
    S("language"), S(data.language), P("}")>>

\* json.dump(data, f) of a transcript dict
json_dump(data) ==
  <<P("{"), S("text"), S(data.text), S("segments"), P("[")>>
    \o Concat([i \in 1..Len(data.segments) |-> dump_segment(data.segments[i])])
    \o <<P("]"), S("language"), S(data.language), P("}")>>

IsP(tok, c) == tok.t = "p" /\ tok.v = c

RECURSIVE parse_value(_)
RECURSIVE parse_members(_, _)
RECURSIVE parse_elements(_, _)
\* a JSON value at the head of toks: [val, rest]
parse_value(toks) ==
  LET tok == Head(toks)
  IN IF IsP(tok, "{") THEN parse_members(Tail(toks), [k \in {} |-> k])
     ELSE IF IsP(tok, "[") THEN parse_elements(Tail(toks), <<>>)
     ELSE [val |-> tok.v, rest |-> Tail(toks)]

parse_members(toks, acc) ==
  IF IsP(Head(toks), "}") THEN [val |-> acc, rest |-> Tail(toks)]
  ELSE LET r == parse_value(Tail(toks))
       IN parse_members(r.rest, (Head(toks).v :> r.val) @@ acc)

parse_elements(toks, acc) ==
  IF IsP(Head(toks), "]") THEN [val |-> acc, rest |-> Tail(toks)]
  ELSE LET r == parse_value(toks)
       IN parse_elements(r.rest, Append(acc, r.val))

\* the nesting depth after the first i tokens
depth_at(toks, i) ==
  Cardinality({j \in 1..i : IsP(toks[j], "{") \/ IsP(toks[j], "[")})
    - Cardinality({j \in 1..i : IsP(toks[j], "}") \/ IsP(toks[j], "]")})

\* the brackets of toks close exactly at its end
balanced(toks) ==
  /\ toks # <<>>
  /\ depth_at(toks, Len(toks)) = 0
  /\ \A i \in 1..Len(toks) - 1 : depth_at(toks, i) > 0

JSONDecodeError == [error |-> "JSONDecodeError"]

\* json.load(f): the value, or JSONDecodeError raised on a text cut short
json_load(toks) ==
  IF balanced(toks) THEN parse_value(toks).val
  ELSE JSONDecodeError

\* the files of the cache directory: path -> content; a path is <<stem, hash>>
NoFile == [absent |-> TRUE]
exists(files, path) == path \in DOMAIN files

save_to_cache(files, data, cache_path) ==
  (cache_path :> json_dump(data)) @@ files

\* None is NoFile
load_from_cache(files, cache_path) ==
  IF exists(files, cache_path) THEN json_load(files[cache_path]) ELSE NoFile

\* ---------------------------------------------------------------- state
VARIABLES
  transcript,       \* the transcript dict at hand
  chunk_size,       \* NoteGenerator.chunk_size
  chunks,           \* result of _chunk_transcript
  model,            \* NoteGenerator.model
  models_response,  \* what client.list() answered
  available,        \* result of check_model_available
  cache_files,      \* files of the cache directory
  cached,           \* result of load_from_cache
  cache_path,       \* the cache path last written or read
  pc,               \* position of the program
  opts,             \* cache_enabled, no_stream, extract_actions_enabled
  video,            \* the source video file
  video_info,       \* result of get_video_info
  audio,            \* the extracted audio file, or NoFile
  temp_audio_path,  \* main's temp_audio_path
  whisper,          \* Transcriber.model
  trace,            \* what this run did: model loads, backend calls, writes
  section_notes,    \* _generate_chunked's section_notes
  notes,            \* the notes generate_notes returned
  out_files,        \* files of the output directory
  exc,              \* the exception unwinding main, or "none"
  exit_code,        \* the exit code of the process, or "running"
  now,              \* the time on the clock
  run,              \* the number of this run
  stored,           \* what completed runs stored: video as it was, transcript
  fingerprints      \* the calls of get_file_hash so far: file and key returned

pipeVars == <<opts, video, video_info, audio, temp_audio_path, whisper, trace,
              section_notes, notes, out_files, exc, exit_code, now, run, stored,
              fingerprints>>

vars == <<transcript, chunk_size, chunks, model, models_response, available,
          cache_files, cached, cache_path, pc, pipeVars>>

None == "None"
NoVideo == [stem |-> "none", name |-> "none", content |-> <<>>, size |-> 0, mtime |-> 0]

\* the pipeline before any run
IdlePipeline ==
  /\ opts = [cache_enabled |-> FALSE, no_stream |-> FALSE, extract_actions_enabled |-> FALSE]
  /\ video = NoVideo
  /\ video_info = <<>>
  /\ audio = NoFile
  /\ temp_audio_path = None
  /\ whisper = None
  /\ trace = <<>>
  /\ section_notes = <<>>
  /\ notes = None
  /\ out_files = <<>>
  /\ exc = "none"
  /\ exit_code = "running"
  /\ now = 0
  /\ run = 0
  /\ stored = {}
  /\ fingerprints = <<>>

NoTranscript == [text |-> <<>>, segments |-> <<>>, language |-> "none"]
NoResponse == [ok |-> FALSE, models |-> {<<"not asked">>}]

\* ----------------------------------------------- the chunker on its own
InitChunk ==
  /\ transcript \in Transcripts
  /\ chunk_size \in 0..MaxBudget
  /\ chunks = <<>>
  /\ model = Llama32_3b
  /\ models_response = NoResponse
  /\ available = FALSE
  /\ cache_files = <<>>
  /\ cached = NoFile
  /\ cache_path = <<>>
  /\ IdlePipeline
  /\ pc = "chunk"

ChunkTranscript ==
  /\ pc = "chunk"
  /\ chunks' = _chunk_transcript(transcript, chunk_size)
  /\ pc' = "chunked"
  /\ UNCHANGED <<transcript, chunk_size, model, models_response, available,
                 cache_files, cached, cache_path, pipeVars>>

NextChunk == ChunkTranscript

SpecChunk == InitChunk /\ [][NextChunk]_vars

\* the segment lists of the chunks, concatenated in chunk order
ChunkSegments(cs) == Concat([i \in 1..Len(cs) |-> cs[i].segments])

\* C1: for a transcript with at least one segment, the chunks' segment lists
\* concatenated in chunk order are the transcript's segment sequence
ChunksReproduceSegments ==
  (pc = "chunked" /\ transcript.segments # <<>>)
    => ChunkSegments(chunks) = transcript.segments

\* C1 witness: a transcript was split into several chunks
ChunksReproduceSegmentsWitness ==
  /\ pc = "chunked"
  /\ Len(transcript.segments) = 3
  /\ Len(chunks) = 2
  /\ Len(chunks[1].segments) = 2

\* C2: no chunk is empty; one oversized segment gives one chunk holding it;
\* a transcript without segments gives the transcript itself as only chunk
NoEmptyChunk ==
  pc = "chunked" =>
    /\ Len(chunks) >= 1
    /\ transcript.segments # <<>> =>
         \A i \in 1..Len(chunks) : Len(chunks[i].segments) >= 1
    /\ Len(transcript.segments) = 1 =>
         /\ Len(chunks) = 1
         /\ chunks[1].segments = transcript.segments
    /\ transcript.segments = <<>> => chunks = <<transcript>>

\* C2 witness: a single segment whose estimate exceeds the budget was chunked
NoEmptyChunkWitness ==
  /\ pc = "chunked"
  /\ Len(transcript.segments) = 1
  /\ _estimate_tokens(transcript.segments[1].text) > chunk_size
  /\ Len(chunks) = 1

\* --------------------------------- the model-availability check on its own
InitModelCheck ==
  /\ model \in ModelIds
  /\ models_response = NoResponse
  /\ available = FALSE
  /\ transcript = NoTranscript
  /\ chunk_size = 0
  /\ chunks = <<>>
  /\ cache_files = <<>>
  /\ cached = NoFile
  /\ cache_path = <<>>
  /\ IdlePipeline
  /\ pc = "check"

CheckModel ==
  /\ pc = "check"
  /\ \E response \in ListResponses :
       /\ models_response' = response
       /\ available' = check_model_available(model, response)
  /\ pc' = "checked"
  /\ UNCHANGED <<transcript, chunk_size, chunks, model, cache_files, cached,
                 cache_path, pipeVars>>

NextModelCheck == CheckModel

SpecModelCheck == InitModelCheck /\ [][NextModelCheck]_vars

HasTag(name) == \E i \in 1..Len(name) : name[i] = ":"

\* C7: for a request base:tag the check answers true when an installed model
\* has that identifier or that base name, and false when every installed
\* model has another base name
BaseNameMatch ==
  (pc = "checked" /\ models_response.ok /\ HasTag(model)) =>
    LET installed == {name \in models_response.models : name # <<>>}
    IN available =
         \E name \in installed :
           name = model \/ split_colon_0(name) = split_colon_0(model)

\* ------------------------------------------------------ the cache on its own
CachePaths == {<<"lecture", "h1">>, <<"lecture", "h2">>}

CacheTranscripts ==
  Transcripts \cup {TranscriptOf(ws, FALSE) : ws \in WordCounts}

InitCache ==
  /\ transcript \in CacheTranscripts
  /\ cache_files = <<>>
  /\ cached = NoFile
  /\ cache_path = <<>>
  /\ chunk_size = 0
  /\ chunks = <<>>
  /\ model = Llama32_3b
  /\ models_response = NoResponse
  /\ available = FALSE
  /\ IdlePipeline
  /\ pc = "cache"

SaveToCache ==
  /\ pc = "cache"
  /\ \E p \in CachePaths :
       /\ cache_files' = save_to_cache(cache_files, transcript, p)
       /\ cache_path' = p
  /\ pc' = "saved"
  /\ UNCHANGED <<transcript, chunk_size, chunks, model, models_response,
                 available, cached, pipeVars>>

LoadFromCache ==
  /\ pc \in {"cache", "saved"}
  /\ \E p \in CachePaths :
       /\ cached' = load_from_cache(cache_files, p)
       /\ cache_path' = p
  /\ pc' = IF pc = "saved" /\ cache_path' = cache_path THEN "roundtrip" ELSE "loaded"
  /\ UNCHANGED <<transcript, chunk_size, chunks, model, models_response,
                 available, cache_files, pipeVars>>

NextCache == SaveToCache \/ LoadFromCache

SpecCache == InitCache /\ [][NextCache]_vars

\* C10: a transcript saved to a path and loaded from it comes back equal,
\* segment and word lists included; a path without a file loads as None
CacheRoundTrip ==
  /\ pc = "roundtrip" => cached = transcript
  /\ (pc = "loaded" /\ ~exists(cache_files, cache_path)) => cached = NoFile

\* C10 witness: a transcript with word lists went through the cache
CacheRoundTripWitness ==
  /\ pc = "roundtrip"
  /\ Len(cached.segments) = 2
  /\ "words" \in DOMAIN cached.segments[1]
  /\ Len(cached.segments[1].words) = 2
  /\ "words" \notin DOMAIN cached.segments[2]

\* ------------------------------------------------------------ the pipeline
MaxRuns == 2

\* what is said in a video: the word count of each recognised segment
Speeches == {<<>>} \cup UNION {[1..n -> 1..MaxWords] : n \in 1..MaxSegs}

VideoPath == "video_path"
AudioPath == "temp_audio_path"

VideoFile(speech) ==
  [stem |-> "lecture", name |-> "lecture.mp4", content |-> speech,
   size |-> Len(speech), mtime |-> 0]

\* the WAV file extract_audio writes at time t
AudioFile(v, t) ==
  [stem |-> "lecture_audio", name |-> "lecture_audio.wav",
   content |-> v.content, size |-> v.size, mtime |-> t]

\* str(n) of a number under 100, digit by digit
Digits(n) == IF n < 10 THEN <<n>> ELSE <<n \div 10, n % 10>>

\* hashlib.md5(...).hexdigest()[:12], taken as injective
md5_12(hash_input) == <<"md5", hash_input>>

\* 1024 * 1024, the bytes get_file_hash reads, on the scale of the files here
OneMiB == 2

\* f.read(n) of a file opened at its start
read(content, n) == SubSeq(content, 1, IF Len(content) < n THEN Len(content) ELSE n)

\* mutant: the modification time is left out of the hash input
hash_input_without_mtime(first_chunk, st_size, st_mtime) ==
  <<first_chunk>> \o Digits(st_size)

\* f"{first_chunk}{stat.st_size}{stat.st_mtime}", the mtime being a float
hash_input(first_chunk, st_size, st_mtime) ==
  <<first_chunk>> \o Digits(st_size) \o Digits(st_mtime) \o <<".", 0>>

get_file_hash(file) ==
  md5_12(hash_input(read(file.content, OneMiB), file.size, file.mtime))

get_cache_path(file) == <<file.stem, get_file_hash(file)>>

\* a call of get_file_hash as fingerprints keeps it
fingerprint(file) == [file |-> file, key |-> get_file_hash(file)]

\* mutant: the cache is keyed by the audio file
cache_key_file_audio(source_file_path, audio_path) == audio_path

\* source_file_path or str(audio_path)
cache_key_file(source_file_path, audio_path) ==
  IF source_file_path # None THEN source_file_path ELSE audio_path

format_duration(seconds) == <<seconds, "seconds">>

\* get_video_info: {} when the probe fails
ProbeFailed == <<>>
VideoInfo(v, has_audio) ==
  [duration_formatted |-> format_duration(Len(v.content)), has_audio |-> has_audio]

\* the three prompt templates
NOTE_PROMPT_TEMPLATE == "NOTE_PROMPT_TEMPLATE"
CHUNK_SUMMARY_PROMPT == "CHUNK_SUMMARY_PROMPT"
MERGE_NOTES_PROMPT == "MERGE_NOTES_PROMPT"

\* "[timestamp] text" lines, or the raw text without segments
_format_transcript_for_prompt(t) ==
  LET segments == Get(t, "segments", <<>>)
  IN IF segments = <<>> THEN <<[text |-> Get(t, "text", <<>>)]>>
     ELSE [i \in 1..Len(segments) |->
             [timestamp |-> Get(segments[i], "start_formatted",
                                format_timestamp(Get(segments[i], "start", 0))),
              text |-> Get(segments[i], "text", <<>>)]]

\* what the backend streams: the fragments of one response
Streams == {<< <<"a">>, <<"b">> >>, << <<"c">> >>}

\* the loop "full_response += chunk" over the fragments
stream_accumulate(fragments) == Concat(fragments)

\* response.get('response', '') of the blocking call with the same text
whole_response(fragments) == Concat(fragments)

\* either way of calling the backend
generated(fragments, stream) ==
  IF stream THEN stream_accumulate(fragments) ELSE whole_response(fragments)

NoAnswer == <<"no response">>

RECURSIVE display_loop(_, _, _, _, _)
\* the loop "for chunk in self._stream_generate(prompt)" of the caller, from
\* fragment k on: console.print(chunk, end=""), then full_response += chunk;
\* console.print raises on fragment fails_at (0: on none)
display_loop(fragments, k, full_response, shown, fails_at) ==
  IF k > Len(fragments)
    THEN [raised |-> FALSE, full_response |-> full_response, shown |-> shown]
  ELSE IF k = fails_at
    THEN [raised |-> TRUE, full_response |-> full_response, shown |-> shown]
  ELSE display_loop(fragments, k + 1, full_response \o fragments[k],
                    Append(shown, fragments[k]), fails_at)

\* the fragments on which console.print may raise
DisplayFailures(fragments, stream) ==
  IF stream THEN 0..Len(fragments) ELSE {0}

\* the last call of a pass (single pass or merge): backend outcome o, then
\* the streaming loop or the blocking call
final_call(fragments, stream, o, fails_at) ==
  IF o # "ok"
    THEN [outcome |-> o, text |-> NoAnswer, sent |-> <<>>, shown |-> <<>>]
  ELSE IF stream
    THEN LET r == display_loop(fragments, 1, <<>>, <<>>, fails_at)
         IN [outcome |-> IF r.raised THEN "error" ELSE "ok",
             text |-> IF r.raised THEN NoAnswer ELSE r.full_response,
             sent |-> fragments, shown |-> r.shown]
  ELSE [outcome |-> "ok", text |-> whole_response(fragments),
        sent |-> fragments, shown |-> <<>>]

\* one client.generate call as the trace records it: what was asked, what the
\* caller got (response), the fragments the backend sent and those displayed
GenerateCall(prompt, stream, response, sent, shown) ==
  [op |-> "generate", model |-> model, prompt |-> prompt, stream |-> stream,
   response |-> response, whisper |-> whisper, sent |-> sent, shown |-> shown]

\* mutant: "not under the budget" read as greater or equal
needs_chunking_ge(total_tokens, size) == total_tokens >= size

\* the test of generate_notes
needs_chunking(total_tokens, size) == total_tokens > size

\* mutant: the missing model is not reported
model_not_found_ignored(available_) == FALSE

\* the test before the RuntimeError of generate_notes
model_not_found(available_) == ~available_

\* mutant: the model is kept loaded
unload_model_kept(m) == m

\* Transcriber.unload_model
unload_model(m) == None

\* one entry of section_notes
section_note(i, chunk, response) ==
  [label |-> i + 1,
   start_time |-> format_timestamp(Get(chunk, "start_time", 0)),
   end_time |-> format_timestamp(Get(chunk, "end_time", 0)),
   response |-> response]

Separator == "---"

RECURSIVE join_sections(_)
\* mutant: the sections are joined last first
join_sections_reversed(sections) ==
  IF sections = <<>> THEN <<>>
  ELSE IF Len(sections) = 1 THEN sections
  ELSE join_sections(Tail(sections)) \o <<Separator, Head(sections)>>

\* "\n\n---\n\n".join(section_notes)
join_sections(sections) ==
  IF sections = <<>> THEN <<>>
  ELSE IF Len(sections) = 1 THEN sections
  ELSE <<Head(sections), Separator>> \o join_sections(Tail(sections))

NotesPath(v) == <<v.stem, "_notes.md">>

\* the comment header of the notes file
notes_header(v, info, t) ==
  <<"Generated by Lecture Notes Pipeline",
    [Source |-> v.name,
     Duration |-> Get(info, "duration_formatted", "unknown"),
     Language |-> Get(t, "language", "unknown")]>>

\* mutant: the notes are written without the comment header
notes_file_bare(v, info, t, text) == <<text>>

\* what main writes to the notes file: the comment header, then the notes
notes_file(v, info, t, text) == notes_header(v, info, t) \o <<text>>

\* a notes file cut short by an interrupt: what was written before the notes
notes_file_partial(v, info, t) == notes_header(v, info, t)

PipelineListResponses ==
  {ListError, ListOk({}), ListOk({Llama32_3b}), ListOk({Mistral_7b})}

Options ==
  [cache_enabled : BOOLEAN, no_stream : BOOLEAN, extract_actions_enabled : BOOLEAN]

\* one run of main
StartOfRun ==
  /\ pc = "analyze"
  /\ transcript = NoTranscript
  /\ chunks = <<>>
  /\ model = Llama32_3b
  /\ models_response = NoResponse
  /\ available = FALSE
  /\ cached = NoFile
  /\ cache_path = <<>>
  /\ video_info = ProbeFailed
  /\ temp_audio_path = None
  /\ whisper = None
  /\ trace = <<>>
  /\ section_notes = <<>>
  /\ notes = None
  /\ exc = "none"
  /\ exit_code = "running"

\* a first run, on an empty cache directory
Init ==
  /\ StartOfRun
  /\ opts \in Options
  /\ chunk_size \in 0..MaxBudget
  /\ \E speech \in Speeches : video = VideoFile(speech)
  /\ cache_files = <<>>
  /\ stored = {}
  /\ fingerprints = <<>>
  /\ audio = NoFile
  /\ out_files = <<>>
  /\ now = 1
  /\ run = 1

Analyze ==
  /\ pc = "analyze"
  /\ \E o \in {"ok", "unreadable", "no_audio"} :
       /\ video_info' = IF o = "unreadable" THEN ProbeFailed ELSE VideoInfo(video, o = "ok")
       /\ IF video_info' # ProbeFailed /\ Get(video_info', "has_audio", FALSE)
            THEN pc' = "extract" /\ exc' = exc
            ELSE pc' = "finally" /\ exc' = "SystemExit"
  /\ UNCHANGED <<transcript, chunk_size, chunks, model, models_response,
                 available, cache_files, cached, cache_path, opts, video,
                 audio, temp_audio_path, whisper, trace, section_notes,
                 notes, out_files, exit_code, now, run, stored,
                 fingerprints>>

ExtractAudio ==
  /\ pc = "extract"
  /\ \E o \in {"ok", "error", "interrupt"} :
       /\ audio' = IF o = "ok" THEN AudioFile(video, now)
                   ELSE IF o = "interrupt" THEN [AudioFile(video, now) EXCEPT !.size = 0]
                   ELSE audio
       /\ temp_audio_path' = IF o = "ok" THEN AudioPath ELSE temp_audio_path
       /\ exc' = IF o = "ok" THEN exc
                 ELSE IF o = "interrupt" THEN "KeyboardInterrupt" ELSE "Exception"
       /\ pc' = IF o = "ok" THEN "transcribe" ELSE "finally"
  /\ UNCHANGED <<transcript, chunk_size, chunks, model, models_response,
                 available, cache_files, cached, cache_path, opts, video,
                 video_info, whisper, trace, section_notes, notes, out_files,
                 exit_code, now, run, stored,
                 fingerprints>>

file_at(path) == IF path = VideoPath THEN video ELSE audio

\* Transcriber.transcribe up to the cache lookup
TranscribeLookup ==
  /\ pc = "transcribe"
  /\ IF audio = NoFile
       THEN /\ exc' = "FileNotFoundError"
            /\ pc' = "unload"
            /\ UNCHANGED <<cache_path, cached, transcript, fingerprints>>
       ELSE IF opts.cache_enabled
         THEN /\ cache_path' = get_cache_path(file_at(cache_key_file(VideoPath, temp_audio_path)))
              /\ fingerprints' = Append(fingerprints,
                   fingerprint(file_at(cache_key_file(VideoPath, temp_audio_path))))
              /\ cached' = load_from_cache(cache_files, cache_path')
              /\ IF cached' = JSONDecodeError
                   THEN exc' = "Exception" /\ pc' = "unload" /\ transcript' = transcript
                   ELSE IF cached' # NoFile
                     THEN exc' = exc /\ pc' = "unload" /\ transcript' = cached'
                     ELSE exc' = exc /\ pc' = "load_model" /\ transcript' = transcript
         ELSE /\ pc' = "load_model"
              /\ UNCHANGED <<cache_path, cached, transcript, exc, fingerprints>>
  /\ UNCHANGED <<chunk_size, chunks, model, models_response, available,
                 cache_files, opts, video, video_info, audio,
                 temp_audio_path, whisper, trace, section_notes, notes,
                 out_files, exit_code, now, run, stored>>

\* Transcriber.load_model
LoadModel ==
  /\ pc = "load_model"
  /\ trace' = Append(trace, [op |-> "load_model"])
  /\ \E o \in {"ok", "error"} :
       /\ whisper' = IF o = "ok" THEN "WhisperModel" ELSE whisper
       /\ exc' = IF o = "ok" THEN exc ELSE "Exception"
       /\ pc' = IF o = "ok" THEN "run_model" ELSE "unload"
  /\ UNCHANGED <<transcript, chunk_size, chunks, model, models_response,
                 available, cache_files, cached, cache_path, opts, video,
                 video_info, audio, temp_audio_path, section_notes, notes,
                 out_files, exit_code, now, run, stored,
                 fingerprints>>

\* the rest of Transcriber.transcribe: recognition, then the cache write
RunModel ==
  /\ pc = "run_model"
  /\ trace' = Append(trace, [op |-> "transcribe"])
  /\ \E o \in {"ok", "error", "interrupt"}
            \cup (IF opts.cache_enabled THEN {"interrupt_save"} ELSE {}) :
       LET result == TranscriptOf(audio.content, TRUE)
           written == save_to_cache(cache_files, result, cache_path)
       IN /\ transcript' = IF o = "ok" THEN result ELSE transcript
          /\ cache_files' =
               IF o = "ok" /\ opts.cache_enabled THEN written
               ELSE IF o = "interrupt_save"
                 THEN (cache_path :> SubSeq(written[cache_path], 1, 2)) @@ cache_files
                 ELSE cache_files
          /\ stored' = IF o = "ok" /\ opts.cache_enabled
                         THEN stored \cup {[video |-> video, run |-> run,
                                            transcript |-> result]}
                         ELSE stored
          /\ exc' = IF o = "ok" THEN exc
                    ELSE IF o = "error" THEN "Exception" ELSE "KeyboardInterrupt"
  /\ pc' = "unload"
  /\ UNCHANGED <<chunk_size, chunks, model, models_response, available, cached,
                 cache_path, opts, video, video_info, audio, temp_audio_path,
                 whisper, section_notes, notes, out_files, exit_code, now,
                 run,
                 fingerprints>>

\* the finally of main around transcribe
UnloadModel ==
  /\ pc = "unload"
  /\ whisper' = unload_model(whisper)
  /\ pc' = IF exc = "none" THEN "model_check" ELSE "finally"
  /\ UNCHANGED <<transcript, chunk_size, chunks, model, models_response,
                 available, cache_files, cached, cache_path, opts, video,
                 video_info, audio, temp_audio_path, trace, section_notes,
                 notes, out_files, exc, exit_code, now, run, stored,
                 fingerprints>>

\* the RuntimeError of generate_notes, by the message main prints for it:
\* f"Model '{self.model}' not found. Run: ollama pull {self.model}"
ModelNotFound == "Model not found. Run: ollama pull"

\* what check_model_available prints when client.list() raises
CouldNotConnect == [op |-> "print_error", message |-> "Could not connect to Ollama"]

printed_by_check(response) == IF response.ok THEN <<>> ELSE <<CouldNotConnect>>

\* generate_notes up to the choice between the single and the chunked pass
ModelCheck ==
  /\ pc = "model_check"
  /\ \E response \in PipelineListResponses, o \in {"answer", "interrupt"} :
       /\ trace' = Append(trace, [op |-> "list", whisper |-> whisper, answered |-> o = "answer"])
                     \o (IF o = "answer" THEN printed_by_check(response) ELSE <<>>)
       /\ models_response' = IF o = "answer" THEN response ELSE models_response
       /\ available' = IF o = "answer" THEN check_model_available(model, response)
                       ELSE available
       /\ IF o = "interrupt"
            THEN exc' = "KeyboardInterrupt" /\ pc' = "finally" /\ chunks' = chunks
            ELSE IF model_not_found(available')
              THEN exc' = ModelNotFound /\ pc' = "finally" /\ chunks' = chunks
              ELSE /\ exc' = exc
                   /\ IF needs_chunking(_estimate_tokens(Get(transcript, "text", <<>>)),
                                        chunk_size)
                        THEN /\ chunks' = _chunk_transcript(transcript, chunk_size)
                             /\ pc' = "summarize"
                        ELSE chunks' = chunks /\ pc' = "single"
  /\ UNCHANGED <<transcript, chunk_size, model, cache_files,
                 cached, cache_path, opts, video, video_info, audio,
                 temp_audio_path, whisper, section_notes, notes, out_files,
                 exit_code, now, run, stored,
                 fingerprints>>

GenOutcomes == {"ok", "error", "interrupt"}

\* mutant: an exception of the generation pass is swallowed
after_generate_notes_swallowed(o) == "write"

\* where main goes on when generate_notes has returned or raised
after_generate_notes(o) == IF o = "ok" THEN "write" ELSE "finally"

\* _generate_single
GenerateSingle ==
  /\ pc = "single"
  /\ \E o \in GenOutcomes, fragments \in Streams :
     \E fails_at \in DisplayFailures(fragments, ~opts.no_stream) :
       LET prompt == [template |-> NOTE_PROMPT_TEMPLATE,
                      transcript |-> _format_transcript_for_prompt(transcript)]
           stream_output == ~opts.no_stream
           call == final_call(fragments, stream_output, o, fails_at)
       IN /\ trace' = Append(trace, GenerateCall(prompt, stream_output, call.text,
                                                 call.sent, call.shown))
          /\ notes' = IF call.outcome = "ok" THEN call.text ELSE notes
          /\ exc' = IF call.outcome = "ok" THEN exc
                    ELSE IF call.outcome = "error" THEN "Exception"
                    ELSE "KeyboardInterrupt"
          /\ pc' = after_generate_notes(call.outcome)
  /\ UNCHANGED <<transcript, chunk_size, chunks, model, models_response,
                 available, cache_files, cached, cache_path, opts, video,
                 video_info, audio, temp_audio_path, whisper, section_notes,
                 out_files, exit_code, now, run, stored,
                 fingerprints>>

\* one turn of the loop of _generate_chunked
SummarizeChunk ==
  /\ pc = "summarize"
  /\ \E o \in GenOutcomes, fragments \in Streams :
       LET i == Len(section_notes)
           chunk == chunks[i + 1]
           prompt == [template |-> CHUNK_SUMMARY_PROMPT,
                      transcript |-> _format_transcript_for_prompt(chunk)]
           response == generated(fragments, FALSE)
       IN /\ trace' = Append(trace, GenerateCall(prompt, FALSE,
                                                 IF o = "ok" THEN response ELSE NoAnswer,
                                                 IF o = "ok" THEN fragments ELSE <<>>,
                                                 <<>>))
          /\ section_notes' = IF o = "ok"
                                THEN Append(section_notes, section_note(i, chunk, response))
                                ELSE section_notes
          /\ exc' = IF o = "ok" THEN exc
                    ELSE IF o = "error" THEN "Exception" ELSE "KeyboardInterrupt"
          /\ pc' = IF o # "ok" THEN "finally"
                   ELSE IF i + 1 = Len(chunks) THEN "merge" ELSE "summarize"
  /\ UNCHANGED <<transcript, chunk_size, chunks, model, models_response,
                 available, cache_files, cached, cache_path, opts, video,
                 video_info, audio, temp_audio_path, whisper, notes,
                 out_files, exit_code, now, run, stored,
                 fingerprints>>

\* the merge call of _generate_chunked
Merge ==
  /\ pc = "merge"
  /\ \E o \in GenOutcomes, fragments \in Streams :
     \E fails_at \in DisplayFailures(fragments, ~opts.no_stream) :
       LET merge_prompt == [template |-> MERGE_NOTES_PROMPT,
                            section_notes |-> join_sections(section_notes)]
           stream_output == ~opts.no_stream
           call == final_call(fragments, stream_output, o, fails_at)
       IN /\ trace' = Append(trace, GenerateCall(merge_prompt, stream_output,
                                                 call.text, call.sent, call.shown))
          /\ notes' = IF call.outcome = "ok" THEN call.text ELSE notes
          /\ exc' = IF call.outcome = "ok" THEN exc
                    ELSE IF call.outcome = "error" THEN "Exception"
                    ELSE "KeyboardInterrupt"
          /\ pc' = after_generate_notes(call.outcome)
  /\ UNCHANGED <<transcript, chunk_size, chunks, model, models_response,
                 available, cache_files, cached, cache_path, opts, video,
                 video_info, audio, temp_audio_path, whisper, section_notes,
                 out_files, exit_code, now, run, stored,
                 fingerprints>>

\* main saves the notes
WriteNotes ==
  /\ pc = "write"
  /\ \E o \in {"ok", "error", "interrupt"} :
       /\ out_files' =
            IF o = "ok"
              THEN (NotesPath(video) :> notes_file(video, video_info, transcript, notes))
                     @@ out_files
            ELSE IF o = "interrupt"
              THEN (NotesPath(video) :> notes_file_partial(video, video_info, transcript))
                     @@ out_files
            ELSE out_files
       /\ trace' = IF o = "error" THEN trace
                   ELSE Append(trace, [op |-> "write", path |-> NotesPath(video),
                                       complete |-> o = "ok"])
       /\ exc' = IF o = "ok" THEN exc
                 ELSE IF o = "error" THEN "Exception" ELSE "KeyboardInterrupt"
       /\ pc' = IF o = "ok" THEN "actions" ELSE "finally"
  /\ UNCHANGED <<transcript, chunk_size, chunks, model, models_response,
                 available, cache_files, cached, cache_path, opts, video,
                 video_info, audio, temp_audio_path, whisper, section_notes,
                 notes, exit_code, now, run, stored,
                 fingerprints>>

\* the methods of class NoteGenerator
NoteGeneratorMethods ==
  {"__init__", "check_model_available", "_estimate_tokens", "_chunk_transcript",
   "_create_chunk_transcript", "_format_transcript_for_prompt",
   "_stream_generate", "generate_notes", "_generate_single", "_generate_chunked"}

\* the lookup generator.<name> finds a method; otherwise AttributeError
has_method(name) == name \in NoteGeneratorMethods

ActionItemsPath(v) == <<v.stem, "_action_items.md">>

\* what main writes to the action-items file
action_items_file(v, action_items) ==
  <<"Extracted by Lecture Notes Pipeline", [Source |-> v.name], action_items>>

\* mutant: the action-items file is opened before the pass is run
save_action_items_opened_first(files, v, returned, action_items) ==
  (ActionItemsPath(v) :> (IF returned THEN action_items_file(v, action_items) ELSE <<>>))
    @@ files

\* main opens the action-items file once extract_action_items has returned
save_action_items(files, v, returned, action_items) ==
  IF returned THEN (ActionItemsPath(v) :> action_items_file(v, action_items)) @@ files
  ELSE files

\* step 5 of main: the lookup of generator.extract_action_items comes first
ActionItems ==
  /\ pc = "actions"
  /\ IF opts.extract_actions_enabled
       THEN LET returned == has_method("extract_action_items")
            IN /\ exc' = IF returned THEN exc ELSE "Exception"
               /\ out_files' = save_action_items(out_files, video, returned, NoAnswer)
       ELSE UNCHANGED <<exc, out_files>>
  /\ pc' = "finally"
  /\ UNCHANGED <<transcript, chunk_size, chunks, model, models_response,
                 available, cache_files, cached, cache_path, opts, video,
                 video_info, audio, temp_audio_path, whisper, trace,
                 section_notes, notes, exit_code, now, run, stored,
                 fingerprints>>

\* cleanup_temp_files of a temp_audio_path, when caching is off
cleanup_temp_files(file, path, cache_enabled) ==
  IF path # None /\ ~cache_enabled THEN NoFile ELSE file

\* mutant: an interrupt is reported like any other failure
exit_status_interrupt_as_error(e) == IF e = "none" THEN 0 ELSE 1

\* the exit code: sys.exit(130) on KeyboardInterrupt, sys.exit(1) on the
\* other exceptions and on the SystemExit of validation, 0 at the end of main
exit_status(e) ==
  IF e = "none" THEN 0 ELSE IF e = "KeyboardInterrupt" THEN 130 ELSE 1

\* the except clauses and the finally of main
Finally ==
  /\ pc = "finally"
  /\ audio' = cleanup_temp_files(audio, temp_audio_path, opts.cache_enabled)
  /\ exit_code' = exit_status(exc)
  /\ pc' = "exit"
  /\ UNCHANGED <<transcript, chunk_size, chunks, model, models_response,
                 available, cache_files, cached, cache_path, opts, video,
                 video_info, temp_audio_path, whisper, trace, section_notes,
                 notes, out_files, exc, now, run, stored,
                 fingerprints>>

Next ==
  \/ Analyze
  \/ ExtractAudio
  \/ TranscribeLookup
  \/ LoadModel
  \/ RunModel
  \/ UnloadModel
  \/ ModelCheck
  \/ GenerateSingle
  \/ SummarizeChunk
  \/ Merge
  \/ WriteNotes
  \/ ActionItems
  \/ Finally

Spec == Init /\ [][Next]_vars

\* ---------------------------------------------------- one run after another
InitRerun ==
  /\ StartOfRun
  /\ opts \in Options
  /\ chunk_size = MaxBudget \div 2
  /\ \E speech \in {<<1>>, <<MaxWords, MaxWords>>} : video = VideoFile(speech)
  /\ cache_files = <<>>
  /\ stored = {}
  /\ fingerprints = <<>>
  /\ audio = NoFile
  /\ out_files = <<>>
  /\ now = 1
  /\ run = 1

\* the process has ended; main is started again, the video touched or not
Rerun ==
  /\ pc = "exit"
  /\ run < MaxRuns
  /\ run' = run + 1
  /\ now' = now + 1
  /\ \E touched \in BOOLEAN :
       video' = IF touched THEN [video EXCEPT !.mtime = now'] ELSE video
  /\ pc' = "analyze"
  /\ transcript' = NoTranscript
  /\ chunks' = <<>>
  /\ models_response' = NoResponse
  /\ available' = FALSE
  /\ cached' = NoFile
  /\ cache_path' = <<>>
  /\ video_info' = ProbeFailed
  /\ temp_audio_path' = None
  /\ whisper' = None
  /\ trace' = <<>>
  /\ section_notes' = <<>>
  /\ notes' = None
  /\ exc' = "none"
  /\ exit_code' = "running"
  /\ UNCHANGED <<chunk_size, model, cache_files, opts, audio,
                 out_files, stored,
                 fingerprints>>

NextRerun == Next \/ Rerun

SpecRerun == InitRerun /\ [][NextRerun]_vars

\* ------------------------------------------------- get_file_hash on its own
MaxBytes == 3

Bytes == {0, 1}
Mtimes == {0, 1}

\* a file on disk: its bytes, and what stat() reports
FileOf(content, mtime) ==
  [stem |-> "lecture", name |-> "lecture.mp4", content |-> content,
   size |-> Len(content), mtime |-> mtime]

Files ==
  {FileOf(c, t) : c \in UNION {[1..n -> Bytes] : n \in 0..MaxBytes}, t \in Mtimes}

InitHash ==
  /\ video \in Files
  /\ fingerprints = <<>>
  /\ pc = "hash"
  /\ transcript = NoTranscript
  /\ chunk_size = 0
  /\ chunks = <<>>
  /\ model = Llama32_3b
  /\ models_response = NoResponse
  /\ available = FALSE
  /\ cache_files = <<>>
  /\ cached = NoFile
  /\ cache_path = <<>>
  /\ opts = [cache_enabled |-> TRUE, no_stream |-> FALSE, extract_actions_enabled |-> FALSE]
  /\ video_info = ProbeFailed
  /\ audio = NoFile
  /\ temp_audio_path = None
  /\ whisper = None
  /\ trace = <<>>
  /\ section_notes = <<>>
  /\ notes = None
  /\ out_files = <<>>
  /\ exc = "none"
  /\ exit_code = "running"
  /\ now = 0
  /\ run = 0
  /\ stored = {}

\* get_cache_path of the file: the fingerprint is taken
GetFileHash ==
  /\ pc \in {"hash", "hash_again"}
  /\ cache_path' = get_cache_path(video)
  /\ fingerprints' = Append(fingerprints, fingerprint(video))
  /\ pc' = IF pc = "hash" THEN "hashed" ELSE "hashed_again"
  /\ UNCHANGED <<transcript, chunk_size, chunks, model, models_response,
                 available, cache_files, cached, opts, video, video_info,
                 audio, temp_audio_path, whisper, trace, section_notes, notes,
                 out_files, exc, exit_code, now, run, stored>>

\* between two calls the file is left alone, rewritten, or its time is set
ModifyFile ==
  /\ pc = "hashed"
  /\ video' \in Files
  /\ pc' = "hash_again"
  /\ UNCHANGED <<transcript, chunk_size, chunks, model, models_response,
                 available, cache_files, cached, cache_path, opts, video_info,
                 audio, temp_audio_path, whisper, trace, section_notes, notes,
                 out_files, exc, exit_code, now, run, stored, fingerprints>>

NextHash == GetFileHash \/ ModifyFile

SpecHash == InitHash /\ [][NextHash]_vars

\* exactly one of three holds
OneOf(x, y, z) == (x /\ ~y /\ ~z) \/ (~x /\ y /\ ~z) \/ (~x /\ ~y /\ z)

\* C11 as stated: the key is the same for the same content, size and
\* modification time, and differs when exactly one of the three differs
\* (refuted by a change of content past the bytes that are read)
KeyOfContentSizeMtime ==
  \A i, j \in 1..Len(fingerprints) :
    LET a == fingerprints[i].file
        b == fingerprints[j].file
        same_key == fingerprints[i].key = fingerprints[j].key
    IN /\ (a.content = b.content /\ a.size = b.size /\ a.mtime = b.mtime) => same_key
       /\ OneOf(a.content # b.content, a.size # b.size, a.mtime # b.mtime) => ~same_key

\* C11 amended: the key is the same for the same first OneMiB bytes, size and
\* modification time, whatever the bytes after them, and differs when
\* exactly one of these three differs
KeyOfFirstChunkSizeMtime ==
  \A i, j \in 1..Len(fingerprints) :
    LET a == fingerprints[i].file
        b == fingerprints[j].file
        first_a == read(a.content, OneMiB)
        first_b == read(b.content, OneMiB)
        same_key == fingerprints[i].key = fingerprints[j].key
    IN /\ (first_a = first_b /\ a.size = b.size /\ a.mtime = b.mtime) => same_key
       /\ OneOf(first_a # first_b, a.size # b.size, a.mtime # b.mtime) => ~same_key

\* C11 witness: a file longer than the bytes read was fingerprinted, then
\* fingerprinted again with only its modification time changed
KeyOfFirstChunkSizeMtimeWitness ==
  /\ pc = "hashed_again"
  /\ Len(fingerprints) = 2
  /\ fingerprints[1].file.size > OneMiB
  /\ fingerprints[1].file.content = fingerprints[2].file.content
  /\ fingerprints[1].file.mtime # fingerprints[2].file.mtime
  /\ fingerprints[1].key # fingerprints[2].key

\* ------------------------------------------------------------------ claims
\* the events of the trace with a given op, in order
Calls(op) == SelectSeq(trace, LAMBDA e : e.op = op)

total_tokens == _estimate_tokens(Get(transcript, "text", <<>>))

\* C3 as stated: single pass only strictly under the budget, chunked pass from
\* the budget on (refuted at total = budget)
SinglePassOnlyUnderBudget ==
  /\ pc = "single" => total_tokens < chunk_size
  /\ pc \in {"summarize", "merge"} => total_tokens >= chunk_size

\* C3 amended: generate_notes takes the single pass when the estimate of the
\* whole transcript is at most the budget, equality included, and the
\* chunked pass only when it is strictly greater
SinglePassUpToBudget ==
  /\ (pc = "single" \/ (notes # None /\ chunks = <<>>)) => total_tokens <= chunk_size
  /\ (pc \in {"summarize", "merge"} \/ chunks # <<>>) => total_tokens > chunk_size

\* C3 witness: an estimate equal to the budget went to the single pass
SinglePassUpToBudgetWitness ==
  /\ pc = "single"
  /\ transcript.segments # <<>>
  /\ total_tokens = chunk_size

\* C4: in the chunked pass the generation calls are the chunk summaries, one
\* per chunk in chunk order and never streamed, then one merge call whose
\* prompt holds sections 1..N in order, each with the response to its call
ChunkedCallsThenMerge ==
  chunks # <<>> =>
    LET gen == Calls("generate")
        n == Len(chunks)
    IN /\ Len(gen) <= n + 1
       /\ notes # None => Len(gen) = n + 1
       /\ \A k \in 1..Len(gen) :
            IF k <= n
              THEN /\ gen[k].stream = FALSE
                   /\ gen[k].prompt =
                        [template |-> CHUNK_SUMMARY_PROMPT,
                         transcript |-> _format_transcript_for_prompt(chunks[k])]
              ELSE LET sections == gen[k].prompt.section_notes
                   IN /\ gen[k].prompt.template = MERGE_NOTES_PROMPT
                      /\ gen[k].stream = ~opts.no_stream
                      /\ Len(sections) = 2 * n - 1
                      /\ \A i \in 1..n :
                           /\ sections[2 * i - 1].label = i
                           /\ sections[2 * i - 1].response = gen[i].response
                      /\ \A i \in 1..n - 1 : sections[2 * i] = Separator

\* C4 witness: three chunks summarised and merged, streaming requested
ChunkedCallsThenMergeWitness ==
  /\ pc = "write"
  /\ Len(chunks) = 3
  /\ ~opts.no_stream
  /\ Len(Calls("generate")) = 4

CompleteWrite == \E i \in 1..Len(trace) : trace[i].op = "write" /\ trace[i].complete

\* C5: under the budget, a run that wrote its notes made exactly one
\* generation call, with the single-pass template, and wrote exactly one
\* file, <stem>_notes.md: the comment header, then the generated notes
SinglePassOneCallOneFile ==
  (total_tokens < chunk_size /\ CompleteWrite) =>
    LET gen == Calls("generate")
        wr == Calls("write")
        path == <<video.stem, "_notes.md">>
    IN /\ Len(gen) = 1
       /\ gen[1].prompt = [template |-> NOTE_PROMPT_TEMPLATE,
                           transcript |-> _format_transcript_for_prompt(transcript)]
       /\ Len(wr) = 1
       /\ wr[1].path = path
       /\ DOMAIN out_files = {path}
       /\ out_files[path] =
            <<"Generated by Lecture Notes Pipeline",
              [Source |-> video.name, Duration |-> video_info.duration_formatted,
               Language |-> transcript.language],
              gen[1].response>>

\* C5 witness: a run of three segments under the budget ended with code 0
SinglePassOneCallOneFileWitness ==
  /\ pc = "exit"
  /\ exit_code = 0
  /\ Len(transcript.segments) = 3
  /\ total_tokens < chunk_size

ModelReportedMissing ==
  LET ls == Calls("list") IN ls # <<>> /\ ls[1].answered /\ ~available

\* C6: when the check reports the model missing, generate_notes raises: the
\* listing is not asked again, no generation call is issued and no notes
\* file is written
MissingModelIsFatal ==
  ModelReportedMissing =>
    /\ Len(Calls("list")) = 1
    /\ Calls("generate") = <<>>
    /\ Calls("write") = <<>>
    /\ out_files = <<>>
    /\ pc \in {"finally", "exit"}
    /\ exc = ModelNotFound
    /\ pc = "exit" => exit_code = 1

\* C6 witness: a run ended after the model was reported missing
MissingModelIsFatalWitness ==
  /\ pc = "exit"
  /\ ModelReportedMissing
  /\ transcript.segments # <<>>

\* C8: whenever the backend is called, and all through the generation phase,
\* the recognition model is unloaded
RecognizerUnloadedDuringGeneration ==
  /\ \A i \in 1..Len(trace) :
       trace[i].op \in {"list", "generate"} => trace[i].whisper = None
  /\ pc \in {"model_check", "single", "summarize", "merge"} => whisper = None

\* C8 witness: a run that loaded the model and transcribed reached generation
RecognizerUnloadedDuringGenerationWitness ==
  /\ Calls("load_model") # <<>>
  /\ Calls("transcribe") # <<>>
  /\ Calls("generate") # <<>>

\* C9: with caching on, once a run has stored the transcript of a video, a
\* later run on the unchanged video gets that transcript without loading the
\* model or transcribing, whatever became of the audio file
CachedRerunSkipsRecognition ==
  \A h \in stored :
    (opts.cache_enabled /\ h.run < run /\ h.video = video /\ cache_path # <<>>) =>
      /\ transcript = h.transcript
      /\ Calls("load_model") = <<>>
      /\ Calls("transcribe") = <<>>
      /\ whisper = None

\* C9 witness: the second run, its audio extracted anew, got the transcript
\* of the first from the cache
CachedRerunSkipsRecognitionWitness ==
  /\ run = 2
  /\ pc = "model_check"
  /\ audio.mtime = 2
  /\ \E h \in stored : h.run = 1 /\ h.video = video /\ transcript = h.transcript
  /\ Len(transcript.segments) = 2

\* a generation call that raised or was interrupted
FailedCall(e) == e.op = "generate" /\ e.response = NoAnswer

\* the calls of one complete generation pass have all been answered
FullPass ==
  LET ls == Calls("list")
      gen == Calls("generate")
  IN /\ Len(ls) = 1 /\ ls[1].answered /\ available
     /\ Len(gen) = (IF chunks = <<>> THEN 1 ELSE Len(chunks) + 1)
     /\ \A k \in 1..Len(gen) : ~FailedCall(gen[k])
     /\ notes = gen[Len(gen)].response

\* C12: the notes file is written only once a complete generation pass has
\* returned: a run whose model check, chunk summary, merge or single-pass
\* call failed or was interrupted writes no notes file
NotesOnlyAfterFullPass ==
  /\ (Calls("write") # <<>> \/ out_files # <<>>) => FullPass
  /\ ~FullPass => (out_files = <<>> /\ pc # "write")
  /\ (\E k \in 1..Len(trace) : FailedCall(trace[k])
                                   \/ (trace[k].op = "list" /\ ~trace[k].answered))
        => (out_files = <<>> /\ pc \in {"finally", "exit"})

\* C12 witness: a chunked pass ended at a failed merge call, nothing written
NotesOnlyAfterFullPassWitness ==
  /\ pc = "exit"
  /\ Len(chunks) = 2
  /\ Len(Calls("generate")) = 3
  /\ FailedCall(trace[Len(trace)])
  /\ out_files = <<>>

\* C13 as stated: with action items enabled, a run whose notes were written
\* goes on to write <stem>_action_items.md under its comment header and ends
\* with code 0 (refuted: NoteGenerator has no extract_action_items)
ActionItemsFileWritten ==
  (pc = "exit" /\ opts.extract_actions_enabled /\ CompleteWrite) =>
    /\ ActionItemsPath(video) \in DOMAIN out_files
    /\ out_files[ActionItemsPath(video)][1] = "Extracted by Lecture Notes Pipeline"
    /\ exit_code = 0

\* the action-item pass failed: the notes were written whole, then main raised
ActionItemPassFailed ==
  /\ opts.extract_actions_enabled
  /\ CompleteWrite
  /\ pc \in {"finally", "exit"}
  /\ exc # "none"

\* C14: when the action-item pass fails, the notes file this run wrote is in
\* place with the content it was given, and no action-items file exists; an
\* action-items file exists only once the pass has returned
FailedActionItemsKeepNotes ==
  /\ ActionItemPassFailed =>
       /\ DOMAIN out_files = {NotesPath(video)}
       /\ out_files[NotesPath(video)] =
            <<"Generated by Lecture Notes Pipeline",
              [Source |-> video.name, Duration |-> video_info.duration_formatted,
               Language |-> transcript.language],
              notes>>
  /\ ActionItemsPath(video) \in DOMAIN out_files =>
       (pc \in {"finally", "exit"} /\ exc = "none")

\* C14 witness: a chunked run wrote its notes and ended with code 1 at the
\* action-item pass
FailedActionItemsKeepNotesWitness ==
  /\ pc = "exit"
  /\ exit_code = 1
  /\ ActionItemPassFailed
  /\ Len(chunks) = 2

\* C15 as stated: once the audio has been extracted, the temporary audio file
\* is gone when the process ends on any failure or interrupt, and on success
\* with caching off (refuted by a failure with caching on)
TempAudioRemoved ==
  (pc = "exit" /\ temp_audio_path # None /\ (exc # "none" \/ ~opts.cache_enabled))
    => audio = NoFile

\* every enabled stage of the run has completed
AllStagesComplete ==
  /\ video_info # ProbeFailed
  /\ video_info.has_audio
  /\ temp_audio_path # None
  /\ transcript # NoTranscript
  /\ cached # JSONDecodeError
  /\ FullPass
  /\ CompleteWrite
  /\ NotesPath(video) \in DOMAIN out_files
  /\ opts.extract_actions_enabled => ActionItemsPath(video) \in DOMAIN out_files

\* C16: the process ends with code 1 on every fatal error, with code 130 on
\* an interrupt and on nothing else, and with code 0 only when every enabled
\* stage has completed
ExitCodes ==
  pc = "exit" =>
    /\ exit_code \in {0, 1, 130}
    /\ exit_code = 130 <=> exc = "KeyboardInterrupt"
    /\ exit_code = 1 <=> exc \notin {"none", "KeyboardInterrupt"}
    /\ exit_code = 0 => AllStagesComplete
    /\ (video_info = ProbeFailed \/ ~video_info.has_audio) => exit_code = 1
    /\ cached = JSONDecodeError => exit_code = 1
    /\ ModelReportedMissing => exit_code = 1
    /\ (\E k \in 1..Len(trace) : trace[k].op = "list" /\ ~trace[k].answered)
         => exit_code = 130
    /\ (\E k \in 1..Len(trace) : FailedCall(trace[k])) => exit_code \in {1, 130}

\* C16 witness: a run interrupted in the merge call ended with code 130
ExitCodesWitness ==
  /\ pc = "exit"
  /\ exit_code = 130
  /\ Len(chunks) = 2
  /\ Len(Calls("generate")) = 3

\* the listing call of this run raised inside check_model_available
BackendUnreachable ==
  /\ \E k \in 1..Len(trace) : trace[k].op = "list" /\ trace[k].answered
  /\ ~models_response.ok

\* C17 as stated: a backend that cannot be reached at the model check ends
\* the run with an error of its own, never with the missing-model error and
\* its 'ollama pull' advice (refuted: list() raising gives ModelNotFound)
UnreachableIsNotMissingModel ==
  (BackendUnreachable /\ pc \in {"finally", "exit"}) =>
    (exc # "none" /\ exc # ModelNotFound)

\* C18 as stated: when the last call of a pass is streamed and the backend
\* has sent its fragments, the notes returned are the fragments concatenated
\* in order of arrival, each displayed once and in that order, also when
\* the display fails (refuted: console.print raising ends the pass)
StreamedNotesAreAllFragments ==
  \A k \in 1..Len(trace) :
    LET e == trace[k]
    IN (e.op = "generate" /\ e.stream /\ e.sent # <<>>) =>
         /\ notes # None
         /\ notes = Concat(e.sent)
         /\ Len(e.shown) <= Len(e.sent)
         /\ e.shown = SubSeq(e.sent, 1, Len(e.shown))

RECURSIVE SumEstimates(_)
\* the per-segment token estimates of a list of segments, added up
SumEstimates(segments) ==
  IF segments = <<>> THEN 0
  ELSE _estimate_tokens(Head(segments).text) + SumEstimates(Tail(segments))

\* C19: a chunk of two or more segments has per-segment estimates adding up
\* to at most the budget; only a chunk of one segment may exceed it
MultiSegmentChunksWithinBudget ==
  (pc = "chunked" /\ transcript.segments # <<>>) =>
    \A i \in 1..Len(chunks) :
      SumEstimates(chunks[i].segments) > chunk_size => Len(chunks[i].segments) = 1

\* C19 witness: a chunk of two segments within the budget, followed by a
\* chunk of one segment over the budget
MultiSegmentChunksWithinBudgetWitness ==
  /\ pc = "chunked"
  /\ Len(chunks) = 2
  /\ Len(chunks[1].segments) = 2
  /\ SumEstimates(chunks[1].segments) <= chunk_size
  /\ SumEstimates(chunks[2].segments) > chunk_size

\* C20: a boundary stands before a segment only where the estimates of the
\* chunk before it plus the estimate of that segment are strictly greater
\* than the budget: each chunk followed by another could not have taken the
\* first segment of the next, and a total equal to the budget does not split
GreedyStrictTieBreak ==
  (pc = "chunked" /\ transcript.segments # <<>>) =>
    \A i \in 1..Len(chunks) - 1 :
      SumEstimates(chunks[i].segments)
        + _estimate_tokens(chunks[i + 1].segments[1].text) > chunk_size

\* C20 witness: a chunk of two segments filled exactly to the budget,
\* followed by another chunk
GreedyStrictTieBreakWitness ==
  /\ pc = "chunked"
  /\ Len(chunks) = 2
  /\ Len(chunks[1].segments) = 2
  /\ _estimate_tokens(chunks[1].segments[2].text) > 0
  /\ SumEstimates(chunks[1].segments) = chunk_size

\* 1.3 * w with the fraction dropped: the e with e <= 1.3 * w < e + 1
Truncated(w) ==
  CHOOSE e \in 0..2 * w : 10 * e <= 13 * w /\ 13 * w < 10 * (e + 1)

\* 1.3 * w rounded to the nearest integer, a half going to the even one
Rounded(w) ==
  CHOOSE e \in 0..2 * w :
    LET d == IF 10 * e >= 13 * w THEN 10 * e - 13 * w ELSE 13 * w - 10 * e
    IN d < 5 \/ (d = 5 /\ e % 2 = 0)

RECURSIVE SumSeq(_)
SumSeq(ns) == IF ns = <<>> THEN 0 ELSE Head(ns) + SumSeq(Tail(ns))

\* est, applied to word counts, is the estimate behind the choice of the pass
\* (on the whole text) and behind the chunk boundaries (per segment)
EstimateGoverns(est(_)) ==
  LET w == Len(Get(transcript, "text", <<>>))
      words(segment) == Len(segment.text)
      sum(c) == SumSeq([j \in 1..Len(c.segments) |-> est(words(c.segments[j]))])
  IN /\ pc = "single" => est(w) <= chunk_size
     /\ pc \in {"summarize", "merge"} => est(w) > chunk_size
     /\ (chunks # <<>> /\ transcript.segments # <<>>) =>
          /\ \A i \in 1..Len(chunks) :
               Len(chunks[i].segments) >= 2 => sum(chunks[i]) <= chunk_size
          /\ \A i \in 1..Len(chunks) - 1 :
               sum(chunks[i]) + est(words(chunks[i + 1].segments[1])) > chunk_size

\* C21 as stated: the estimate of a text of w words is 1.3 * w rounded to the
\* nearest integer, in the choice of the pass and in the chunker's running
\* total (refuted at w = 2: the code counts 2, not 3)
EstimateIsRounded == EstimateGoverns(Rounded)

\* C21 amended: the estimate of a text of w words is 1.3 * w with the fraction
\* dropped (rounded down), and this one estimate is behind both the choice
\* of the pass and the chunker's running total
EstimateIsTruncated == EstimateGoverns(Truncated)

\* C21 witness: a text of two words, estimate 2 by truncation and 3 by
\* rounding, went to the single pass under a budget of 2
EstimateIsTruncatedWitness ==
  /\ pc = "single"
  /\ Len(transcript.text) = 2
  /\ Len(transcript.segments) = 2
  /\ chunk_size = 2

\* C22 as stated: a chunked pass over a transcript with segments has at
\* least two chunks, so the merge call never gets a single section, and a
\* transcript that chunks into two or more chunks never takes the single pass
\* (refuted: segments of 2 and 2 words under a budget of 4 give one chunk)
ChunkedPassHasTwoChunks ==
  /\ (pc \in {"summarize", "merge"} /\ transcript.segments # <<>>) => Len(chunks) >= 2
  /\ \A k \in 1..Len(trace) :
       (trace[k].op = "generate" /\ trace[k].prompt.template = MERGE_NOTES_PROMPT)
         => Len(trace[k].prompt.section_notes) > 1
  /\ (pc = "single" /\ transcript.segments # <<>>)
       => Len(_chunk_transcript(transcript, chunk_size)) < 2

\* C22 amended: a chunked pass over a transcript with segments has at least
\* two chunks unless the transcript has one segment or its per-segment
\* estimates add up to at most the budget; then it has one chunk and the merge
\* call gets that one section. A transcript that chunks into two or more
\* chunks never takes the single pass
ChunkedPassChunkCount ==
  /\ (pc \in {"summarize", "merge"} /\ transcript.segments # <<>>) =>
       /\ Len(chunks) >= 1
       /\ Len(chunks) = 1 <=>
            \/ Len(transcript.segments) = 1
            \/ SumSeq([j \in 1..Len(transcript.segments) |->
                         Truncated(Len(transcript.segments[j].text))]) <= chunk_size
  /\ \A k \in 1..Len(trace) :
       (trace[k].op = "generate" /\ trace[k].prompt.template = MERGE_NOTES_PROMPT)
         => Len(trace[k].prompt.section_notes) = 2 * Len(chunks) - 1
  /\ (pc = "single" /\ transcript.segments # <<>>)
       => Len(_chunk_transcript(transcript, chunk_size)) < 2

\* C22 witness: two segments whose text is over the budget while their
\* estimates add up to it: one chunk, and the merge call made over it
ChunkedPassChunkCountWitness ==
  /\ pc = "write"
  /\ Len(transcript.segments) = 2
  /\ Len(chunks) = 1
  /\ Len(Calls("generate")) = 2
  /\ Calls("generate")[2].prompt.template = MERGE_NOTES_PROMPT

====
